---- MODULE Spec2Model ----
(***************************************************************************)
(* A model of the rest-api-mcp-server tool surface (version 1.3.0): the    *)
(* CallTool handler with its two tools rest_api_request and                *)
(* rest_api_graphql, buildRequestConfig, detectContentType, retryRequest,  *)
(* formatResponse and formatError.                                         *)
(*                                                                         *)
(* JavaScript values are records tagged by the field t; objects keep their *)
(* properties in insertion order as a sequence of [k, v] pairs.            *)
(***************************************************************************)
EXTENDS Integers, Sequences, FiniteSets, TLC

VARIABLES
  call,   \* call[c]: the state of tool call (or retryRequest invocation) c
  ids,    \* the calls that take part in the behaviour
  now,    \* the clock, in milliseconds
  disk    \* the file system: path -> contents, for the paths that exist

vars == <<call, ids, now, disk>>

-----------------------------------------------------------------------------
(* Bounds of the model *)

\* the largest maxRetries a direct invocation of retryRequest is given
MaxRetriesBound == 3
\* how long one network attempt takes, in ms
NetLatency == 30
\* how late a timer may fire after its delay has elapsed, in ms
TimerSlack == 5
\* how many times one request specification is built
MaxBuilds == 2

-----------------------------------------------------------------------------
(* JavaScript values *)

Undef == [t |-> "undefined"]
Null == [t |-> "null"]
Str(s) == [t |-> "string", s |-> s]
Num(n) == [t |-> "number", n |-> n]
Bool(b) == [t |-> "boolean", b |-> b]
Arr(items) == [t |-> "array", items |-> items]
Obj(props) == [t |-> "object", props |-> props]
P(k, v) == [k |-> k, v |-> v]

\* ToBoolean: undefined, null, "", 0 and false are falsy
Truthy(v) ==
  CASE v.t = "undefined" -> FALSE
    [] v.t = "null" -> FALSE
    [] v.t = "string" -> v.s # ""
    [] v.t = "number" -> v.n # 0
    [] v.t = "boolean" -> v.b
    [] OTHER -> TRUE

TypeOf(v) ==
  CASE v.t \in {"null", "array", "object", "buffer", "form"} -> "object"
    [] OTHER -> v.t

IsPlainObj(v) == v.t = "object"

Keys(o) == [i \in 1..Len(o.props) |-> o.props[i].k]
KeySet(o) == {o.props[i].k : i \in 1..Len(o.props)}
Has(o, k) == k \in KeySet(o)
\* o[k]: undefined for a key the object does not have
Get(o, k) ==
  IF IsPlainObj(o) /\ Has(o, k)
  THEN LET i == CHOOSE j \in 1..Len(o.props) : o.props[j].k = k IN o.props[i].v
  ELSE Undef
\* o[k] = v: an existing key keeps its place, a new key goes last
Set(o, k, v) ==
  IF Has(o, k)
  THEN Obj([i \in 1..Len(o.props) |->
              IF o.props[i].k = k THEN P(k, v) ELSE o.props[i]])
  ELSE Obj(Append(o.props, P(k, v)))
RECURSIVE SetAll(_, _, _)
SetAll(o, props, i) ==
  IF i > Len(props) THEN o
  ELSE SetAll(Set(o, props[i].k, props[i].v), props, i + 1)
\* {...a, ...b}
Spread(a, b) == SetAll(a, b.props, 1)
EmptyObj == Obj(<<>>)

\* JSON.stringify followed by JSON.parse, as the caller of the tool sees the
\* text: properties whose value is undefined are left out, a Buffer becomes
\* its JSON form, everything else is kept.
RECURSIVE Json(_)
JsonProps(props) ==
  LET keep == SelectSeq(props, LAMBDA p : p.v.t # "undefined")
  IN  [i \in 1..Len(keep) |-> P(keep[i].k, Json(keep[i].v))]
Json(v) ==
  CASE v.t = "object" -> Obj(JsonProps(v.props))
    [] v.t = "array" ->
         Arr([i \in 1..Len(v.items) |->
                IF v.items[i].t = "undefined" THEN Null ELSE Json(v.items[i])])
    [] v.t = "buffer" -> Obj(<<P("type", Str("Buffer")), P("data", Str(v.bytes))>>)
    [] OTHER -> v

-----------------------------------------------------------------------------
(* Transport outcomes and thrown values *)

\* an HTTP response as axios hands it over
Response(status, statusText, data) ==
  [t |-> "response", status |-> status, statusText |-> statusText,
   headers |-> Obj(<<P("content-type", Str("application/json"))>>),
   data |-> data]

\* a thrown value: kind is the class of the error
Err(kind, message, response) ==
  [kind |-> kind, message |-> message, response |-> response]
NoError == Err("undefined", "", Undef)

\* axios.isAxiosError
isAxiosError(error) == error.kind = "AxiosError"

\* error.response?.status
ResponseStatus(error) ==
  IF error.response.t = "response" THEN Num(error.response.status) ELSE Undef

\* a Buffer holding the given bytes; its length is their number
Buffer(bytes) == [t |-> "buffer", bytes |-> bytes]
ByteLength(buf) == Len(buf.bytes)

\* what one execution of the request gives: a response, or a thrown error
Resolved(response) == [ok |-> TRUE, response |-> response, error |-> NoError]
Rejected(error) == [ok |-> FALSE, response |-> Undef, error |-> error]

\* The replies of the remote side that the model distinguishes.  A status
\* outside 200..299 makes axios reject with an AxiosError that carries the
\* response; a timeout or a connection failure rejects with an AxiosError
\* without a response; "other" is a failure that is no AxiosError at all.
ReplyKinds ==
  {"ok", "http304", "http400", "http404", "http499", "http500", "timeout", "other"}
TransientKinds == {"http304", "http500", "timeout", "other"}

ReplyStatus(kind) ==
  CASE kind = "ok" -> 200
    [] kind = "http304" -> 304
    [] kind = "http400" -> 400
    [] kind = "http404" -> 404
    [] kind = "http499" -> 499
    [] kind = "http500" -> 500
    [] OTHER -> 0

\* the payload bytes of the remote side's body
ReplyBytes(kind) ==
  CASE kind = "ok" -> "PNGDATA"
    [] kind = "http400" -> "bad"
    [] kind = "http404" -> "nf"
    [] kind = "http500" -> "oops"
    [] OTHER -> ""

\* response.data as axios decodes it: the raw bytes under responseType
\* arraybuffer, else the parsed JSON (an empty body decodes to "")
ReplyData(kind, responseType) ==
  IF responseType = Str("arraybuffer") THEN Buffer(ReplyBytes(kind))
  ELSE IF ReplyBytes(kind) = "" THEN Str("")
  ELSE Obj(<<P("body", Str(ReplyBytes(kind)))>>)

\* axios(config) for a reply of the given kind
AxiosResult(kind, responseType, timeout) ==
  CASE kind = "ok" ->
         Resolved(Response(200, "OK", ReplyData(kind, responseType)))
    [] kind \in {"http304", "http400", "http404", "http499", "http500"} ->
         Rejected(Err("AxiosError",
                      "Request failed with status code " \o ToString(ReplyStatus(kind)),
                      Response(ReplyStatus(kind), "ERR", ReplyData(kind, responseType))))
    [] kind = "timeout" ->
         Rejected(Err("AxiosError",
                      "timeout of " \o ToString(timeout) \o "ms exceeded", Undef))
    [] OTHER -> Rejected(Err("Error", "socket hang up", Undef))

-----------------------------------------------------------------------------
(* The state of one call *)

NoSettle == [kind |-> "none", response |-> Undef, error |-> NoError]
NoResult == [text |-> Undef, isError |-> FALSE]

IdleCall ==
  [mode |-> "none", pc |-> "idle", name |-> "", args |-> Undef,
   params |-> Undef, config |-> Undef,
   maxRetries |-> 0, baseDelay |-> 0, attempt |-> 0, invocations |-> 0,
   replies |-> <<>>, waits |-> <<>>, starts |-> <<>>, ends |-> <<>>,
   wakeAt |-> 0, lastError |-> NoError, settle |-> NoSettle,
   reads |-> <<>>, writes |-> <<>>, result |-> NoResult, builds |-> <<>>,
   sent |-> <<>>]

-----------------------------------------------------------------------------
(* retryRequest *)

DefaultMaxRetries == 3
DefaultBaseDelay == 1000
\* the longest delay a Node timer takes; a longer one is set to 1 ms
TIMEOUT_MAX == 2147483647

\* the base delays a direct invocation of retryRequest is given
BaseDelays == {DefaultBaseDelay, 250}

Max(a, b) == IF a >= b THEN a ELSE b


\* what axios(config) transmits when config has already been passed to axios
\* `before` times: the config as it is, but a FormData payload is a stream
\* that the first transmission reads to its end, which leaves it without parts
Transmitted(config, before) ==
  IF "data" \in DOMAIN config /\ config.data.t = "form" /\ before > 0
  THEN [config EXCEPT !.data = [@ EXCEPT !.parts = <<>>]]
  ELSE config

\* the request function is called: one more attempt is in flight
Invoke(r, t) ==
  [r EXCEPT !.pc = "inflight", !.invocations = @ + 1, !.starts = Append(@, t),
            !.sent = Append(@, Transmitted(r.config, r.invocations))]

\* retryRequest returns the value / throws the error
Returned(r, response) ==
  [r EXCEPT !.pc = "settled",
            !.settle = [kind |-> "return", response |-> response, error |-> NoError]]
Threw(r, error) ==
  [r EXCEPT !.pc = "settled",
            !.settle = [kind |-> "throw", response |-> Undef, error |-> error]]

\* IsClientError with the lower limit taken exclusive
IsClientErrorExclusive(error) ==
  /\ isAxiosError(error)
  /\ Truthy(ResponseStatus(error))
  /\ error.response.status > 400
  /\ error.response.status < 500

\* IsClientError without the lower limit: every response below 500
IsClientErrorBelow500(error) ==
  /\ isAxiosError(error)
  /\ Truthy(ResponseStatus(error))
  /\ error.response.status < 500

\* the test of the first if of the catch block: a client error (4xx)
IsClientError(error) ==
  /\ isAxiosError(error)
  /\ Truthy(ResponseStatus(error))
  /\ error.response.status >= 400
  /\ error.response.status < 500

\* IsLastAttempt one attempt early
IsLastAttemptEarly(attempt, maxRetries) == attempt = maxRetries - 1

\* attempt === maxRetries
IsLastAttempt(attempt, maxRetries) == attempt = maxRetries

\* BackoffDelay growing linearly
BackoffDelayLinear(baseDelay, attempt) == baseDelay * (attempt + 1)

\* baseDelay * Math.pow(2, attempt)
BackoffDelay(baseDelay, attempt) == baseDelay * (2 ^ attempt)

\* setTimeout(resolve, delay): the time at which the timer may fire
TimerDue(t, delay) == t + (IF delay >= 1 /\ delay <= TIMEOUT_MAX THEN delay ELSE 1)

\* the head of the for loop: attempt <= maxRetries, else throw lastError
LoopHead(r, t) ==
  IF r.attempt <= r.maxRetries THEN Invoke(r, t) ELSE Threw(r, r.lastError)

\* retryRequest(requestFn, maxRetries, baseDelay), up to its first await
retryRequest(r, maxRetries, baseDelay, t) ==
  LoopHead([r EXCEPT !.maxRetries = maxRetries, !.baseDelay = baseDelay,
                     !.attempt = 0, !.lastError = NoError], t)

\* retrySettled without the return of the try block: a success is followed
\* by the next attempt
retrySettledNoReturn(r, outcome, t) ==
  IF outcome.ok THEN Invoke([r EXCEPT !.attempt = @ + 1], t)
  ELSE LET r1 == [r EXCEPT !.lastError = outcome.error] IN
       IF IsClientError(outcome.error) THEN Threw(r1, outcome.error)
       ELSE IF IsLastAttempt(r1.attempt, r1.maxRetries) THEN Threw(r1, outcome.error)
       ELSE LET delay == BackoffDelay(r1.baseDelay, r1.attempt) IN
            [r1 EXCEPT !.pc = "backoff",
                       !.waits = Append(@, delay),
                       !.wakeAt = TimerDue(t, delay)]

\* the awaited request function has settled at time t
retrySettled(r, outcome, t) ==
  IF outcome.ok THEN Returned(r, outcome.response)
  ELSE LET r1 == [r EXCEPT !.lastError = outcome.error] IN
       IF IsClientError(outcome.error) THEN Threw(r1, outcome.error)
       ELSE IF IsLastAttempt(r1.attempt, r1.maxRetries) THEN Threw(r1, outcome.error)
       ELSE LET delay == BackoffDelay(r1.baseDelay, r1.attempt) IN
            [r1 EXCEPT !.pc = "backoff",
                       !.waits = Append(@, delay),
                       !.wakeAt = TimerDue(t, delay)]

\* the backoff timer has fired at time t: attempt++ and the loop goes on
retryResumed(r, t) == LoopHead([r EXCEPT !.attempt = @ + 1], t)

-----------------------------------------------------------------------------
(* Strings, paths and encodings used by the builder *)

\* k.includes(ch), for a one-character ch
Includes(k, ch) == \E i \in 1..Len(k) : SubSeq(k, i, i) = ch

\* String(value)
RECURSIVE ToStr(_)
RECURSIVE JoinItems(_, _)
JoinItems(items, i) ==
  IF i > Len(items) THEN ""
  ELSE (IF items[i].t \in {"undefined", "null"} THEN "" ELSE ToStr(items[i]))
       \o (IF i < Len(items) THEN "," ELSE "") \o JoinItems(items, i + 1)
ToStr(v) ==
  CASE v.t = "string" -> v.s
    [] v.t = "number" -> ToString(v.n)
    [] v.t = "boolean" -> IF v.b THEN "true" ELSE "false"
    [] v.t = "null" -> "null"
    [] v.t = "undefined" -> "undefined"
    [] v.t = "array" -> JoinItems(v.items, 1)
    [] v.t = "buffer" -> v.bytes
    [] OTHER -> "[object Object]"

\* Object.entries(value), for a value other than null and undefined
Entries(v) ==
  CASE v.t = "object" -> v.props
    [] v.t = "array" -> [i \in 1..Len(v.items) |-> P(ToString(i - 1), v.items[i])]
    [] v.t = "string" -> [i \in 1..Len(v.s) |-> P(ToString(i - 1), Str(SubSeq(v.s, i, i)))]
    [] OTHER -> <<>>

\* the application/x-www-form-urlencoded serializer of URLSearchParams, on
\* the characters the model uses
EncodeChar(ch) ==
  CASE ch = " " -> "+"
    [] ch = "&" -> "%26"
    [] ch = "=" -> "%3D"
    [] ch = "/" -> "%2F"
    [] ch = ":" -> "%3A"
    [] ch = "@" -> "%40"
    [] ch = "," -> "%2C"
    [] ch = "[" -> "%5B"
    [] ch = "]" -> "%5D"
    [] OTHER -> ch
RECURSIVE UrlEncode(_)
UrlEncode(str) ==
  IF str = "" THEN ""
  ELSE EncodeChar(SubSeq(str, 1, 1)) \o UrlEncode(SubSeq(str, 2, Len(str)))
\* urlSearchParams.toString() after appending String(value) for every entry
RECURSIVE UrlSearchParamsString(_, _)
UrlSearchParamsString(entries, i) ==
  IF i > Len(entries) THEN ""
  ELSE UrlEncode(entries[i].k) \o "=" \o UrlEncode(ToStr(entries[i].v))
       \o (IF i < Len(entries) THEN "&" ELSE "")
       \o UrlSearchParamsString(entries, i + 1)

\* the working directory of the server process
Cwd == "/srv"
\* path.resolve(p): an absolute path is kept, a relative one is put under
\* the working directory
resolve(p) ==
  IF p = "" THEN Cwd
  ELSE IF SubSeq(p, 1, 1) = "/" THEN p
  ELSE Cwd \o "/" \o p
\* filePath.split(/[\\/]/).pop()
RECURSIVE LastSegment(_)
LastSegment(p) ==
  IF ~Includes(p, "/") THEN p ELSE LastSegment(SubSeq(p, 2, Len(p)))

\* the paths writeFileSync cannot write (the directory does not exist)
Unwritable == {"/nodir/out.bin"}

-----------------------------------------------------------------------------
(* The argument schemas *)

Methods == {"GET", "POST", "PUT", "PATCH", "DELETE"}
AuthTypes == {"none", "api-key", "bearer", "basic"}
GraphQLMethods == {"GET", "POST"}
DefaultTimeout == 30000

\* z.string().url(): the strings that parse as an absolute URL
ValidUrls == {"https://api.test/posts", "https://api.test/graphql"}

IsStr(v) == v.t = "string"
OptStr(v) == v.t \in {"undefined", "string"}
OptEnum(v, values) == v.t = "undefined" \/ (v.t = "string" /\ v.s \in values)
\* HeaderSchema: z.record(z.string())
IsHeaders(v) ==
  IsPlainObj(v) /\ \A i \in 1..Len(v.props) : v.props[i].v.t = "string"
\* QueryParamsSchema: z.record(z.union([string, number, boolean]))
IsQueryParams(v) ==
  IsPlainObj(v) /\ \A i \in 1..Len(v.props) :
                     v.props[i].v.t \in {"string", "number", "boolean"}
\* the auth fields the two schemas share
AuthFieldsValid(a) ==
  /\ OptEnum(Get(a, "authType"), AuthTypes)
  /\ OptStr(Get(a, "apiKey"))
  /\ OptStr(Get(a, "apiKeyHeader"))
  /\ OptStr(Get(a, "bearerToken"))
  /\ OptStr(Get(a, "username"))
  /\ OptStr(Get(a, "password"))
CommonFieldsValid(a) ==
  /\ IsStr(Get(a, "url")) /\ Get(a, "url").s \in ValidUrls
  /\ Get(a, "headers").t = "undefined" \/ IsHeaders(Get(a, "headers"))
  /\ Get(a, "queryParams").t = "undefined" \/ IsQueryParams(Get(a, "queryParams"))
  /\ Get(a, "timeout").t \in {"undefined", "number"}
  /\ AuthFieldsValid(a)

\* value ?? default, as zod's .default() does it
OrDefault(v, d) == IF v.t = "undefined" THEN d ELSE v

\* RestApiRequestValid without the checks of url, method and authType
RestApiRequestValidLoose(a) ==
  /\ IsPlainObj(a)
  /\ IsStr(Get(a, "url"))
  /\ OptStr(Get(a, "contentType"))
  /\ OptStr(Get(a, "saveResponseTo"))

\* RestApiRequestSchema.parse(args) succeeds
RestApiRequestValid(a) ==
  /\ IsPlainObj(a)
  /\ CommonFieldsValid(a)
  /\ OptEnum(Get(a, "method"), Methods)
  /\ OptStr(Get(a, "contentType"))
  /\ OptStr(Get(a, "saveResponseTo"))
\* the value RestApiRequestSchema.parse(args) returns
RestApiRequestSchema(a) ==
  Obj(<<P("url", Get(a, "url")),
        P("method", OrDefault(Get(a, "method"), Str("GET"))),
        P("body", Get(a, "body")),
        P("headers", Get(a, "headers")),
        P("queryParams", Get(a, "queryParams")),
        P("contentType", Get(a, "contentType")),
        P("saveResponseTo", Get(a, "saveResponseTo")),
        P("timeout", OrDefault(Get(a, "timeout"), Num(DefaultTimeout))),
        P("authType", OrDefault(Get(a, "authType"), Str("none"))),
        P("apiKey", Get(a, "apiKey")),
        P("apiKeyHeader", OrDefault(Get(a, "apiKeyHeader"), Str("X-API-Key"))),
        P("bearerToken", Get(a, "bearerToken")),
        P("username", Get(a, "username")),
        P("password", Get(a, "password"))>>)

\* GraphQLRequestSchema.parse(args) succeeds
GraphQLRequestValid(a) ==
  /\ IsPlainObj(a)
  /\ CommonFieldsValid(a)
  /\ IsStr(Get(a, "query"))
  /\ Get(a, "variables").t \in {"undefined", "object"}
  /\ OptStr(Get(a, "operationName"))
  /\ OptEnum(Get(a, "httpMethod"), GraphQLMethods)
\* the value GraphQLRequestSchema.parse(args) returns
GraphQLRequestSchema(a) ==
  Obj(<<P("url", Get(a, "url")),
        P("query", Get(a, "query")),
        P("variables", Get(a, "variables")),
        P("operationName", Get(a, "operationName")),
        P("httpMethod", OrDefault(Get(a, "httpMethod"), Str("POST"))),
        P("headers", Get(a, "headers")),
        P("queryParams", Get(a, "queryParams")),
        P("timeout", OrDefault(Get(a, "timeout"), Num(DefaultTimeout))),
        P("authType", OrDefault(Get(a, "authType"), Str("none"))),
        P("apiKey", Get(a, "apiKey")),
        P("apiKeyHeader", OrDefault(Get(a, "apiKeyHeader"), Str("X-API-Key"))),
        P("bearerToken", Get(a, "bearerToken")),
        P("username", Get(a, "username")),
        P("password", Get(a, "password"))>>)

\* the ZodError a failed parse throws
ZodError == Err("ZodError", "[{\"code\":\"invalid_type\"}]", Undef)

-----------------------------------------------------------------------------
(* detectContentType and buildRequestConfig *)

IsScalar(v) == v.t \in {"string", "number", "boolean", "null"}

\* detectContentType that takes only a non-empty files array for an upload
detectContentTypeNonEmptyFiles(body) ==
  IF ~Truthy(body) THEN Undef
  ELSE IF TypeOf(body) = "object" /\ Get(body, "files").t = "array"
          /\ Len(Get(body, "files").items) > 0
  THEN Str("multipart/form-data")
  ELSE IF TypeOf(body) = "object" /\ body.t # "array"
          /\ (\A i \in 1..Len(Entries(body)) : IsScalar(Entries(body)[i].v))
          /\ (\E i \in 1..Len(Entries(body)) :
                Includes(Entries(body)[i].k, "_") \/ Entries(body)[i].k = "grant_type")
  THEN Str("application/x-www-form-urlencoded")
  ELSE Str("application/json")

\* detectContentType that knows the key grant_type only
detectContentTypeGrantOnly(body) ==
  IF ~Truthy(body) THEN Undef
  ELSE IF TypeOf(body) = "object" /\ Truthy(Get(body, "files"))
          /\ Get(body, "files").t = "array"
  THEN Str("multipart/form-data")
  ELSE IF TypeOf(body) = "object" /\ body.t # "array"
          /\ (\A i \in 1..Len(Entries(body)) : IsScalar(Entries(body)[i].v))
          /\ (\E i \in 1..Len(Entries(body)) : Entries(body)[i].k = "grant_type")
  THEN Str("application/x-www-form-urlencoded")
  ELSE Str("application/json")

detectContentType(body) ==
  IF ~Truthy(body) THEN Undef
  ELSE IF TypeOf(body) = "object" /\ Truthy(Get(body, "files"))
          /\ Get(body, "files").t = "array"
  THEN Str("multipart/form-data")
  ELSE IF TypeOf(body) = "object" /\ body.t # "array"
          /\ (\A i \in 1..Len(Entries(body)) : IsScalar(Entries(body)[i].v))
          /\ (\E i \in 1..Len(Entries(body)) :
                Includes(Entries(body)[i].k, "_") \/ Entries(body)[i].k = "grant_type")
  THEN Str("application/x-www-form-urlencoded")
  ELSE Str("application/json")

\* the AxiosRequestConfig under construction
Config(method, url, timeout, headers, params) ==
  [method |-> method, url |-> url, timeout |-> timeout, headers |-> headers,
   params |-> params, data |-> Undef, auth |-> Undef, responseType |-> Undef]
NoConfig == Config(Undef, Undef, Undef, Undef, Undef)

\* what building gives: the config, or the error thrown on the way, and the
\* files read so far
Built(config, reads) ==
  [threw |-> FALSE, error |-> NoError, config |-> config, reads |-> reads]
BuildThrew(error, reads) ==
  [threw |-> TRUE, error |-> error, config |-> NoConfig, reads |-> reads]

\* a FormData under construction
Form(boundary, parts) == [t |-> "form", boundary |-> boundary, parts |-> parts]
FilePart(name, buffer, filename, contentType) ==
  [name |-> name, value |-> buffer, filename |-> filename, contentType |-> contentType]
FieldPart(name, value) ==
  [name |-> name, value |-> Str(value), filename |-> Undef, contentType |-> Undef]
\* form.getHeaders()
getHeaders(form) ==
  Obj(<<P("content-type", Str("multipart/form-data; boundary=" \o form.boundary))>>)

\* for (const fileSpec of files): the elements the loop visits; a value that
\* is not iterable makes the loop throw
Iterable(v) == v.t \in {"array", "string"}
Items(v) ==
  IF v.t = "array" THEN v.items
  ELSE [i \in 1..Len(v.s) |-> Str(SubSeq(v.s, i, i))]

\* the loop over params.body.files from element i on: reads each file and
\* appends it to the form, or throws
RECURSIVE AppendFiles(_, _, _, _, _)
AppendFiles(items, i, fs, parts, reads) ==
  IF i > Len(items) THEN [threw |-> FALSE, error |-> NoError, parts |-> parts, reads |-> reads]
  ELSE LET fileSpec == items[i] IN
    IF fileSpec.t \in {"undefined", "null"}
    THEN [threw |-> TRUE, parts |-> parts, reads |-> reads,
          error |-> Err("TypeError", "Cannot read properties of " \o fileSpec.t, Undef)]
    ELSE IF Get(fileSpec, "path").t # "string"
    THEN [threw |-> TRUE, parts |-> parts, reads |-> reads,
          error |-> Err("TypeError", "The \"paths[0]\" argument must be of type string", Undef)]
    ELSE LET filePath == resolve(Get(fileSpec, "path").s) IN
      IF filePath \notin DOMAIN fs
      THEN [threw |-> TRUE, parts |-> parts, reads |-> Append(reads, filePath),
            error |-> Err("Error", "ENOENT: no such file or directory, open '"
                                   \o filePath \o "'", Undef)]
      ELSE AppendFiles(items, i + 1, fs,
             Append(parts,
               FilePart(IF Truthy(Get(fileSpec, "fieldName"))
                          THEN Get(fileSpec, "fieldName") ELSE Str("file"),
                        Buffer(fs[filePath]),
                        IF Truthy(Get(fileSpec, "filename"))
                          THEN Get(fileSpec, "filename") ELSE Str(LastSegment(filePath)),
                        Get(fileSpec, "mimeType"))),
             Append(reads, filePath))

\* AuthHeaders that goes by the credentials given and not by authType
AuthHeadersByCredential(params, headers) ==
  CASE Truthy(Get(params, "apiKey")) ->
         Set(headers,
             IF Truthy(Get(params, "apiKeyHeader"))
               THEN Get(params, "apiKeyHeader").s ELSE "X-API-Key",
             Get(params, "apiKey"))
    [] Truthy(Get(params, "bearerToken")) ->
         Set(headers, "Authorization", Str("Bearer " \o Get(params, "bearerToken").s))
    [] OTHER -> headers

\* the authentication switch: the headers and the auth field it leaves
AuthHeaders(params, headers) ==
  CASE Get(params, "authType") = Str("api-key") /\ Truthy(Get(params, "apiKey")) ->
         Set(headers,
             IF Truthy(Get(params, "apiKeyHeader"))
               THEN Get(params, "apiKeyHeader").s ELSE "X-API-Key",
             Get(params, "apiKey"))
    [] Get(params, "authType") = Str("bearer") /\ Truthy(Get(params, "bearerToken")) ->
         Set(headers, "Authorization", Str("Bearer " \o Get(params, "bearerToken").s))
    [] OTHER -> headers
\* AuthField that is content with a username alone
AuthFieldPartial(params) ==
  IF Get(params, "authType") = Str("basic") /\ Truthy(Get(params, "username"))
  THEN Obj(<<P("username", Get(params, "username")),
             P("password", Get(params, "password"))>>)
  ELSE Undef
AuthField(params) ==
  IF Get(params, "authType") = Str("basic")
     /\ Truthy(Get(params, "username")) /\ Truthy(Get(params, "password"))
  THEN Obj(<<P("username", Get(params, "username")),
             P("password", Get(params, "password"))>>)
  ELSE Undef
ApplyAuth(params, config) ==
  [config EXCEPT !.headers = AuthHeaders(params, @), !.auth = AuthField(params)]

\* the headers the config starts with: a copy of the caller's, and the
\* default Accept when the caller's has none
InitialHeaders(params) ==
  LET copied == IF Truthy(Get(params, "headers"))
                THEN Spread(EmptyObj, Get(params, "headers")) ELSE EmptyObj
  IN  IF ~Truthy(Get(copied, "Accept")) THEN Set(copied, "Accept", Str("*/*"))
      ELSE copied

\* ResolveContentType that asks detectContentType whenever there is a body
ResolveContentTypeInferFirst(params) ==
  IF Truthy(Get(params, "body"))
  THEN detectContentType(Get(params, "body"))
  ELSE Get(params, "contentType")

\* let contentType = params.contentType; if (!contentType && params.body) ...
ResolveContentType(params) ==
  IF ~Truthy(Get(params, "contentType")) /\ Truthy(Get(params, "body"))
  THEN detectContentType(Get(params, "body"))
  ELSE Get(params, "contentType")

\* the multipart branch
BuildMultipart(config, body, fs, boundary) ==
  LET files == Get(body, "files") IN
  IF ~Iterable(files)
  THEN BuildThrew(Err("TypeError", "params.body.files is not iterable", Undef), <<>>)
  ELSE LET read == AppendFiles(Items(files), 1, fs, <<>>, <<>>) IN
    IF read.threw THEN BuildThrew(read.error, read.reads)
    ELSE LET fields == IF Truthy(Get(body, "fields"))
                       THEN Entries(Get(body, "fields")) ELSE <<>>
             parts == read.parts \o
                      [i \in 1..Len(fields) |-> FieldPart(fields[i].k, ToStr(fields[i].v))]
             form == Form(boundary, parts)
         IN  Built([config EXCEPT !.data = form,
                                  !.headers = Spread(@, getHeaders(form))],
                   read.reads)

\* the form-urlencoded branch
BuildUrlEncoded(config, body) ==
  IF body.t = "null"
  THEN BuildThrew(Err("TypeError", "Cannot convert undefined or null to object", Undef), <<>>)
  ELSE Built([config EXCEPT
                !.data = Str(UrlSearchParamsString(Entries(body), 1)),
                !.headers = Set(@, "Content-Type", Str("application/x-www-form-urlencoded"))],
             <<>>)

\* the else branch with the body turned into a string by the builder itself
BuildPassThroughSerialized(config, body, contentType) ==
  Built([config EXCEPT
           !.headers = Set(@, "Content-Type",
                           IF Truthy(contentType) THEN contentType
                           ELSE Str("application/json")),
           !.data = Str(ToStr(body))],
        <<>>)

\* the else branch: the body is passed through
BuildPassThrough(config, body, contentType) ==
  Built([config EXCEPT
           !.headers = Set(@, "Content-Type",
                           IF Truthy(contentType) THEN contentType
                           ELSE Str("application/json")),
           !.data = body],
        <<>>)

\* if (params.body !== undefined) { ... }
EncodeBody(config, params, fs, boundary) ==
  LET body == Get(params, "body")
      contentType == ResolveContentType(params)
  IN  IF body.t = "undefined" THEN Built(config, <<>>)
      ELSE IF contentType = Str("multipart/form-data") /\ TypeOf(body) = "object"
      THEN IF body.t = "null"
           THEN BuildThrew(Err("TypeError", "Cannot read properties of null (reading 'files')",
                               Undef), <<>>)
           ELSE IF Truthy(Get(body, "files"))
           THEN BuildMultipart(config, body, fs, boundary)
           ELSE BuildPassThrough(config, body, contentType)
      ELSE IF contentType = Str("application/x-www-form-urlencoded")
      THEN BuildUrlEncoded(config, body)
      ELSE BuildPassThrough(config, body, contentType)

\* SetResponseType that asks for raw bytes only on a GET
SetResponseTypeGetOnly(params, config) ==
  IF Truthy(Get(params, "saveResponseTo")) /\ Get(params, "method") = Str("GET")
  THEN [config EXCEPT !.responseType = Str("arraybuffer")]
  ELSE config

\* if (params.saveResponseTo) config.responseType = 'arraybuffer'
SetResponseType(params, config) ==
  IF Truthy(Get(params, "saveResponseTo"))
  THEN [config EXCEPT !.responseType = Str("arraybuffer")]
  ELSE config

\* buildRequestConfig(params), with the file system it reads and the
\* boundary its FormData draws
buildRequestConfig(params, fs, boundary) ==
  LET config == Config(IF Truthy(Get(params, "method")) THEN Get(params, "method")
                       ELSE Str("GET"),
                       Get(params, "url"), Get(params, "timeout"),
                       InitialHeaders(params), Get(params, "queryParams"))
      encoded == EncodeBody(config, params, fs, boundary)
  IN  IF encoded.threw THEN encoded
      ELSE Built(SetResponseType(params, ApplyAuth(params, encoded.config)),
                 encoded.reads)

-----------------------------------------------------------------------------
(* formatResponse, formatError and the GraphQL configs *)

formatResponse(response) ==
  Obj(<<P("status", Num(response.status)),
        P("statusText", Str(response.statusText)),
        P("headers", response.headers),
        P("data", response.data)>>)

\* SavedEnvelope that also carries the payload
SavedEnvelopeWithData(response, savePath) ==
  Obj(<<P("status", Num(response.status)),
        P("statusText", Str(response.statusText)),
        P("headers", response.headers),
        P("data", response.data),
        P("savedTo", Str(savePath)),
        P("size", Num(ByteLength(response.data)))>>)

\* the envelope of a response saved to a file
SavedEnvelope(response, savePath) ==
  Obj(<<P("status", Num(response.status)),
        P("statusText", Str(response.statusText)),
        P("headers", response.headers),
        P("savedTo", Str(savePath)),
        P("size", Num(ByteLength(response.data)))>>)

\* error.response?.field
ResponseField(error, field) ==
  IF error.response.t # "response" THEN Undef
  ELSE CASE field = "status" -> Num(error.response.status)
         [] field = "statusText" -> Str(error.response.statusText)
         [] field = "headers" -> error.response.headers
         [] OTHER -> error.response.data

\* formatError with null in place of the fields of a missing response
formatErrorNullFields(error) ==
  LET orNull(v) == IF v.t = "undefined" THEN Null ELSE v IN
  IF isAxiosError(error)
  THEN Obj(<<P("error", Bool(TRUE)),
             P("message", Str(error.message)),
             P("status", orNull(ResponseField(error, "status"))),
             P("statusText", orNull(ResponseField(error, "statusText"))),
             P("headers", orNull(ResponseField(error, "headers"))),
             P("data", orNull(ResponseField(error, "data")))>>)
  ELSE Obj(<<P("error", Bool(TRUE)),
             P("message", Str(IF error.message # "" THEN error.message
                              ELSE "Unknown error occurred"))>>)

formatError(error) ==
  IF isAxiosError(error)
  THEN Obj(<<P("error", Bool(TRUE)),
             P("message", Str(error.message)),
             P("status", ResponseField(error, "status")),
             P("statusText", ResponseField(error, "statusText")),
             P("headers", ResponseField(error, "headers")),
             P("data", ResponseField(error, "data"))>>)
  ELSE Obj(<<P("error", Bool(TRUE)),
             P("message", Str(IF error.message # "" THEN error.message
                              ELSE "Unknown error occurred"))>>)

\* JSON.stringify(value), as text
RECURSIVE JsonText(_)
RECURSIVE JsonMembers(_, _)
RECURSIVE JsonElements(_, _)
JsonMembers(props, i) ==
  IF i > Len(props) THEN ""
  ELSE "\"" \o props[i].k \o "\":" \o JsonText(props[i].v)
       \o (IF i < Len(props) THEN "," ELSE "") \o JsonMembers(props, i + 1)
JsonElements(items, i) ==
  IF i > Len(items) THEN ""
  ELSE JsonText(items[i]) \o (IF i < Len(items) THEN "," ELSE "")
       \o JsonElements(items, i + 1)
JsonText(v) ==
  CASE v.t = "string" -> "\"" \o v.s \o "\""
    [] v.t = "number" -> ToString(v.n)
    [] v.t = "boolean" -> IF v.b THEN "true" ELSE "false"
    [] v.t = "object" ->
         "{" \o JsonMembers(SelectSeq(v.props, LAMBDA p : p.v.t # "undefined"), 1) \o "}"
    [] v.t = "array" -> "[" \o JsonElements(v.items, 1) \o "]"
    [] OTHER -> "null"

\* GraphQLGetConfig that puts the variables object itself among the query
\* parameters
GraphQLGetConfigRawVariables(params) ==
  LET queryParams == IF Truthy(Get(params, "queryParams"))
                     THEN Get(params, "queryParams") ELSE EmptyObj
      q0 == Set(Spread(EmptyObj, queryParams), "query", Get(params, "query"))
      q1 == IF Truthy(Get(params, "variables"))
            THEN Set(q0, "variables", Get(params, "variables")) ELSE q0
      q2 == IF Truthy(Get(params, "operationName"))
            THEN Set(q1, "operationName", Get(params, "operationName")) ELSE q1
      headers == Spread(Obj(<<P("Accept", Str("*/*"))>>),
                        IF Truthy(Get(params, "headers"))
                        THEN Get(params, "headers") ELSE EmptyObj)
  IN  ApplyAuth(params, Config(Str("GET"), Get(params, "url"),
                               Get(params, "timeout"), headers, q2))

\* the config of rest_api_graphql with httpMethod GET
GraphQLGetConfig(params) ==
  LET queryParams == IF Truthy(Get(params, "queryParams"))
                     THEN Get(params, "queryParams") ELSE EmptyObj
      q0 == Set(Spread(EmptyObj, queryParams), "query", Get(params, "query"))
      q1 == IF Truthy(Get(params, "variables"))
            THEN Set(q0, "variables", Str(JsonText(Get(params, "variables")))) ELSE q0
      q2 == IF Truthy(Get(params, "operationName"))
            THEN Set(q1, "operationName", Get(params, "operationName")) ELSE q1
      headers == Spread(Obj(<<P("Accept", Str("*/*"))>>),
                        IF Truthy(Get(params, "headers"))
                        THEN Get(params, "headers") ELSE EmptyObj)
  IN  ApplyAuth(params, Config(Str("GET"), Get(params, "url"),
                               Get(params, "timeout"), headers, q2))

\* the config of rest_api_graphql with httpMethod POST
GraphQLPostConfig(params) ==
  LET b0 == Obj(<<P("query", Get(params, "query"))>>)
      b1 == IF Truthy(Get(params, "variables"))
            THEN Set(b0, "variables", Get(params, "variables")) ELSE b0
      b2 == IF Truthy(Get(params, "operationName"))
            THEN Set(b1, "operationName", Get(params, "operationName")) ELSE b1
      headers == Spread(Obj(<<P("Content-Type", Str("application/json")),
                              P("Accept", Str("*/*"))>>),
                        IF Truthy(Get(params, "headers"))
                        THEN Get(params, "headers") ELSE EmptyObj)
  IN  [ApplyAuth(params, Config(Str("POST"), Get(params, "url"),
                                Get(params, "timeout"), headers,
                                Get(params, "queryParams")))
         EXCEPT !.data = b2]

\* (httpMethod || "POST").toUpperCase() === "GET"
GraphQLConfig(params) ==
  IF Get(params, "httpMethod") = Str("GET") THEN GraphQLGetConfig(params)
  ELSE GraphQLPostConfig(params)

-----------------------------------------------------------------------------
(* The CallTool handler *)

Tools == {"rest_api_request", "rest_api_graphql"}

\* JSON.stringify(envelope, null, 2), read back by the caller
JsonResult(envelope, isError) == [text |-> Json(envelope), isError |-> isError]
\* a text that is no JSON
PlainResult(text, isError) == [text |-> Str(text), isError |-> isError]

\* the handler returns a result
Return(r, result) == [r EXCEPT !.pc = "returned", !.result = result]

\* a catch block that throws the error on: the handler's promise rejects
CatchRethrow(r, error) == [r EXCEPT !.pc = "rejected"]

\* the catch block of the handler
Catch(r, error) == Return(r, JsonResult(formatError(error), TRUE))

\* the default case of the switch
UnknownTool(r) == Return(r, PlainResult("Unknown tool: " \o r.name, TRUE))

\* StartRequest whose config shares its headers object with the validated
\* parameters: the headers the builder adds show up in params.headers
StartRequestSharedHeaders(r, config, t) ==
  retryRequest([r EXCEPT !.config = config,
                         !.params = Set(@, "headers", config.headers)],
               DefaultMaxRetries, DefaultBaseDelay, t)

\* StartRequest that retries a GET only
StartRequestRetryGetOnly(r, config, t) ==
  retryRequest([r EXCEPT !.config = config],
               IF config.method = Str("GET") THEN DefaultMaxRetries ELSE 0,
               DefaultBaseDelay, t)

\* const response = await retryRequest(() => axios(config)), up to the await
StartRequest(r, config, t) ==
  retryRequest([r EXCEPT !.config = config], DefaultMaxRetries, DefaultBaseDelay, t)

\* RestApiRequest that goes on to the request although the build has thrown
RestApiRequestSendAnyway(r, fs, boundary, t) ==
  IF ~RestApiRequestValid(r.args) THEN Catch(r, ZodError)
  ELSE LET params == RestApiRequestSchema(r.args)
           built == buildRequestConfig(params, fs, boundary)
           r1 == [r EXCEPT !.params = params, !.reads = built.reads]
       IN  StartRequest(r1, built.config, t)

\* case "rest_api_request", up to the first await
RestApiRequest(r, fs, boundary, t) ==
  IF ~RestApiRequestValid(r.args) THEN Catch(r, ZodError)
  ELSE LET params == RestApiRequestSchema(r.args)
           built == buildRequestConfig(params, fs, boundary)
           r1 == [r EXCEPT !.params = params, !.reads = built.reads]
       IN  IF built.threw THEN Catch(r1, built.error)
           ELSE StartRequest(r1, built.config, t)

\* case "rest_api_graphql", up to the first await
RestApiGraphql(r, t) ==
  IF ~GraphQLRequestValid(r.args) THEN Catch(r, ZodError)
  ELSE LET params == GraphQLRequestSchema(r.args)
       IN  StartRequest([r EXCEPT !.params = params], GraphQLConfig(params), t)

\* the handler from its entry to its first await or its return
Dispatch(r, fs, boundary, t) ==
  CASE r.name = "rest_api_request" -> RestApiRequest(r, fs, boundary, t)
    [] r.name = "rest_api_graphql" -> RestApiGraphql(r, t)
    [] OTHER -> UnknownTool(r)

\* writeFileSync(savePath, data) succeeds
CanWrite(savePath) == savePath \notin Unwritable

\* the handler after retryRequest has settled: the call record it leaves
Continue(r) ==
  IF r.settle.kind = "throw" THEN Catch(r, r.settle.error)
  ELSE LET response == r.settle.response
           saveTo == Get(r.params, "saveResponseTo")
       IN  IF r.name = "rest_api_request" /\ Truthy(saveTo)
           THEN LET savePath == resolve(saveTo.s) IN
                IF CanWrite(savePath)
                THEN Return([r EXCEPT !.writes = Append(@, savePath)],
                            JsonResult(SavedEnvelope(response, savePath), FALSE))
                ELSE Catch([r EXCEPT !.writes = Append(@, savePath)],
                           Err("Error", "ENOENT: no such file or directory, open '"
                                        \o savePath \o "'", Undef))
           ELSE Return(r, JsonResult(formatResponse(response), FALSE))

\* DiskAfter that also saves the body of a failure's response
DiskAfterAnyResponse(r, fs) ==
  LET response == IF r.settle.kind = "return" THEN r.settle.response
                  ELSE r.settle.error.response
  IN  IF /\ response # Undef
         /\ r.name = "rest_api_request"
         /\ Truthy(Get(r.params, "saveResponseTo"))
         /\ CanWrite(resolve(Get(r.params, "saveResponseTo").s))
      THEN LET savePath == resolve(Get(r.params, "saveResponseTo").s) IN
           [q \in DOMAIN fs \cup {savePath} |->
              IF q = savePath THEN response.data.bytes ELSE fs[q]]
      ELSE fs

\* the file system the handler leaves after retryRequest has settled
DiskAfter(r, fs) ==
  IF /\ r.settle.kind = "return"
     /\ r.name = "rest_api_request"
     /\ Truthy(Get(r.params, "saveResponseTo"))
     /\ CanWrite(resolve(Get(r.params, "saveResponseTo").s))
  THEN LET savePath == resolve(Get(r.params, "saveResponseTo").s) IN
       [q \in DOMAIN fs \cup {savePath} |->
          IF q = savePath THEN r.settle.response.data.bytes ELSE fs[q]]
  ELSE fs

-----------------------------------------------------------------------------
(* The inputs of the model *)

\* the boundaries a FormData may draw
Boundaries == {"b1", "b2"}

\* the file system at the start: one attachment, one file to be overwritten
InitialDisk == [q \in {"/data/a.txt", "/tmp/out.bin"} |->
                  IF q = "/data/a.txt" THEN "hello" ELSE "old"]

Url == P("url", Str("https://api.test/posts"))
GqlUrl == P("url", Str("https://api.test/graphql"))
OneFile(path) == Obj(<<P("files", Arr(<<Obj(<<P("path", Str(path))>>)>>))>>)

\* argument bags of rest_api_request that validate
ValidRestArgs ==
  { Obj(<<Url>>),
    Obj(<<Url, P("method", Str("POST")),
          P("body", Obj(<<P("title", Str("x"))>>)),
          P("authType", Str("bearer")), P("bearerToken", Str("t"))>>),
    Obj(<<Url, P("method", Str("POST")),
          P("body", Obj(<<P("title", Str("x"))>>)),
          P("headers", Obj(<<P("Content-Type", Str("text/plain")),
                             P("Authorization", Str("Basic abc"))>>)),
          P("authType", Str("bearer")), P("bearerToken", Str("t"))>>),
    Obj(<<Url, P("method", Str("PUT")),
          P("body", Obj(<<P("grant_type", Str("password"))>>)),
          P("authType", Str("basic")),
          P("username", Str("u")), P("password", Str("p"))>>),
    Obj(<<Url, P("saveResponseTo", Str("/tmp/out.bin"))>>),
    Obj(<<Url, P("method", Str("POST")), P("saveResponseTo", Str("new.bin")),
          P("authType", Str("api-key")), P("apiKey", Str("k"))>>),
    Obj(<<Url, P("saveResponseTo", Str("/nodir/out.bin"))>>),
    Obj(<<Url, P("method", Str("POST")), P("body", OneFile("/data/a.txt"))>>),
    Obj(<<Url, P("method", Str("POST")), P("body", OneFile("/data/missing.txt"))>>),
    Obj(<<Url, P("method", Str("POST")), P("body", Null),
          P("contentType", Str("application/x-www-form-urlencoded"))>>),
    Obj(<<Url, P("authType", Str("api-key"))>>),
    Obj(<<Url, P("method", Str("POST")),
          P("body", Obj(<<P("title", Str("x"))>>)),
          P("authType", Str("bearer"))>>),
    Obj(<<Url, P("authType", Str("basic")), P("username", Str("u"))>>),
    Obj(<<Url, P("authType", Str("basic")), P("password", Str("p"))>>),
    Obj(<<Url, P("method", Str("PUT")),
          P("body", Obj(<<P("title", Str("x"))>>)),
          P("contentType", Str("text/plain")),
          P("saveResponseTo", Str("/tmp/out.bin"))>>),
    Obj(<<Url, P("method", Str("PATCH")),
          P("body", Obj(<<P("title", Str("y"))>>))>>),
    Obj(<<Url, P("method", Str("DELETE"))>>) }

\* argument bags of rest_api_request that do not validate; some of them
\* name files to read and to write
InvalidRestArgs ==
  { Undef,
    Obj(<<P("method", Str("GET"))>>),
    Obj(<<P("url", Str("not a url")), P("saveResponseTo", Str("/tmp/out.bin"))>>),
    Obj(<<P("url", Num(5))>>),
    Obj(<<Url, P("method", Str("HEAD")), P("body", OneFile("/data/a.txt"))>>),
    Obj(<<Url, P("authType", Str("oauth")), P("bearerToken", Str("t")),
          P("saveResponseTo", Str("/tmp/out.bin"))>>),
    Obj(<<Url, P("headers", Obj(<<P("X-Count", Num(5))>>))>>),
    Obj(<<Url, P("timeout", Str("30000"))>>) }

\* argument bags of rest_api_graphql
ValidGraphqlArgs ==
  { Obj(<<GqlUrl, P("query", Str("{ a }")), P("httpMethod", Str("GET"))>>),
    Obj(<<GqlUrl, P("query", Str("query Q($id: ID!) { user(id: $id) { name } }")),
          P("variables", Obj(<<P("id", Str("123"))>>)),
          P("operationName", Str("Q")),
          P("headers", Obj(<<P("Authorization", Str("Basic abc"))>>)),
          P("authType", Str("bearer")), P("bearerToken", Str("t"))>>),
    Obj(<<GqlUrl, P("query", Str("{ a }")),
          P("authType", Str("bearer")), P("apiKey", Str("k"))>>) }
InvalidGraphqlArgs ==
  { Obj(<<GqlUrl>>),
    Obj(<<GqlUrl, P("query", Str("{ a }")), P("httpMethod", Str("PUT"))>>) }

\* the tool calls of the model: a name and an argument bag
ToolCall(name, args) == [name |-> name, args |-> args]
ToolCalls ==
  {ToolCall("rest_api_request", a) : a \in ValidRestArgs \cup InvalidRestArgs}
  \cup {ToolCall("rest_api_graphql", a) : a \in ValidGraphqlArgs \cup InvalidGraphqlArgs}
  \cup {ToolCall("rest_api_get", Obj(<<Url>>)), ToolCall("", Undef)}

-----------------------------------------------------------------------------
(* The actions *)

\* CallToolFrom with the descriptor kept in one place for all calls: the
\* descriptor built for a new call replaces that of the calls under way
CallToolFromSharedConfig(c, calls) ==
  /\ call[c].pc = "idle"
  /\ \E tc \in calls, boundary \in Boundaries :
       LET r == Dispatch([IdleCall EXCEPT !.mode = "tool", !.name = tc.name,
                                          !.args = tc.args],
                         disk, boundary, now)
       IN  call' = [d \in DOMAIN call |->
                      IF d = c THEN r
                      ELSE IF call[d].pc \in {"inflight", "backoff"}
                           THEN [call[d] EXCEPT !.config = r.config]
                           ELSE call[d]]
  /\ UNCHANGED <<ids, now, disk>>

\* a tool call, one of the given ones, arrives: the handler runs to its
\* first await or to its return
CallToolFrom(c, calls) ==
  /\ call[c].pc = "idle"
  /\ \E tc \in calls, boundary \in Boundaries :
       call' = [call EXCEPT ![c] =
                  Dispatch([IdleCall EXCEPT !.mode = "tool", !.name = tc.name,
                                            !.args = tc.args],
                           disk, boundary, now)]
  /\ UNCHANGED <<ids, now, disk>>
CallTool(c) == CallToolFrom(c, ToolCalls)

\* retryRequest is invoked on its own, with a request function that gives
\* any of the replies
InvokeRetry(c) ==
  /\ call[c].pc = "idle"
  /\ \E maxRetries \in 0..MaxRetriesBound, baseDelay \in BaseDelays :
       call' = [call EXCEPT ![c] =
                  retryRequest([IdleCall EXCEPT !.mode = "unit"],
                               maxRetries, baseDelay, now)]
  /\ UNCHANGED <<ids, now, disk>>

\* config.responseType and config.timeout of the attempt in flight
ResponseTypeOf(r) == IF r.mode = "tool" THEN r.config.responseType ELSE Undef
TimeoutOf(r) == IF r.mode = "tool" THEN r.config.timeout.n ELSE DefaultTimeout

\* the attempt in flight settles with one of the given replies, after one of
\* the given latencies: retryRequest returns, throws or starts its backoff,
\* and a tool call whose retryRequest is over runs to its return
SettleWith(c, kinds, latencies) ==
  /\ call[c].pc = "inflight"
  /\ \E kind \in kinds, latency \in latencies :
       LET t == now + latency
           r0 == [call[c] EXCEPT !.replies = Append(@, kind), !.ends = Append(@, t)]
           r1 == retrySettled(r0, AxiosResult(kind, ResponseTypeOf(r0), TimeoutOf(r0)), t)
           over == r1.mode = "tool" /\ r1.pc = "settled"
       IN  /\ call' = [call EXCEPT ![c] = IF over THEN Continue(r1) ELSE r1]
           /\ disk' = IF over THEN DiskAfter(r1, disk) ELSE disk
           /\ now' = t
  /\ UNCHANGED ids
Settle(c) == SettleWith(c, ReplyKinds, {NetLatency})

\* the backoff timer fires, at or after its due time, as late as one of the
\* given delays
TimerFireLate(c, lates) ==
  /\ call[c].pc = "backoff"
  /\ \E late \in lates :
       LET t == Max(now, call[c].wakeAt) + late
       IN  /\ call' = [call EXCEPT ![c] = retryResumed(call[c], t)]
           /\ now' = t
  /\ UNCHANGED <<ids, disk>>
TimerFire(c) == TimerFireLate(c, {0, TimerSlack})

-----------------------------------------------------------------------------
(* The specifications *)

CallIds == {1}

Init ==
  /\ ids = CallIds
  /\ call = [c \in CallIds |-> IdleCall]
  /\ now = 0
  /\ disk = InitialDisk

\* the server: tool calls and their attempts
Next ==
  \/ \E c \in ids : CallTool(c)
  \/ \E c \in ids : Settle(c)
  \/ \E c \in ids : TimerFire(c)
Spec == Init /\ [][Next]_vars

\* retryRequest alone, for every maxRetries up to the bound
NextRetry ==
  \/ \E c \in ids : InvokeRetry(c)
  \/ \E c \in ids : Settle(c)
  \/ \E c \in ids : TimerFire(c)
SpecRetry == Init /\ [][NextRetry]_vars

\* two calls at once: the calls, the tool calls and the replies of the pair
PairIds == {1, 2}
PairToolCalls ==
  { ToolCall("rest_api_request",
             Obj(<<Url, P("method", Str("POST")),
                   P("body", Obj(<<P("title", Str("x"))>>)),
                   P("headers", Obj(<<P("X-Trace", Str("1"))>>)),
                   P("authType", Str("bearer")), P("bearerToken", Str("t")),
                   P("saveResponseTo", Str("/tmp/out.bin"))>>)),
    ToolCall("rest_api_graphql",
             Obj(<<GqlUrl, P("query", Str("{ a }")), P("httpMethod", Str("GET"))>>)) }
PairReplyKinds == {"ok", "http404", "http500"}

InitPair ==
  /\ ids = PairIds
  /\ call = [c \in PairIds |-> IdleCall]
  /\ now = 0
  /\ disk = InitialDisk

\* the server with two calls in flight at once, their steps interleaved
NextPair ==
  \/ \E c \in ids : CallToolFrom(c, PairToolCalls)
  \/ \E c \in ids : SettleWith(c, PairReplyKinds, {0})
  \/ \E c \in ids : TimerFireLate(c, {0})
SpecPair == InitPair /\ [][NextPair]_vars

-----------------------------------------------------------------------------
(* The builders alone, over a family of request specifications *)

\* the bodies of the family
BuildBodies ==
  { Undef, Null, Num(0), Str("raw"), EmptyObj, Arr(<<Num(1)>>),
    Obj(<<P("title", Str("x"))>>),
    Obj(<<P("grant_type", Str("password"))>>),
    Obj(<<P("user_name", Str("a b")), P("n", Num(1)), P("ok", Bool(TRUE)),
          P("z", Null)>>),
    Obj(<<P("a", Obj(<<P("b_c", Num(1))>>))>>),
    Obj(<<P("grant_type", Str("password")), P("scope", Arr(<<Str("r")>>))>>),
    OneFile("/data/a.txt"),
    OneFile("/data/missing.txt"),
    Obj(<<P("files", Arr(<<>>))>>),
    Obj(<<P("files", Arr(<<Obj(<<P("path", Str("/data/a.txt")),
                                 P("fieldName", Str("doc")),
                                 P("mimeType", Str("text/plain"))>>)>>)),
          P("grant_type", Str("password")),
          P("fields", Obj(<<P("a_b", Num(1))>>))>>),
    Obj(<<P("files", Str("x"))>>),
    Obj(<<P("files", Num(5))>>) }

\* the contentType arguments of the family
BuildContentTypes ==
  { Undef, Str("multipart/form-data"), Str("application/x-www-form-urlencoded"),
    Str("application/json"), Str("text/plain") }

\* the caller's headers of the family
BuildHeaders ==
  { Undef,
    Obj(<<P("Content-Type", Str("text/plain"))>>),
    Obj(<<P("Accept", Str("application/json"))>>),
    Obj(<<P("accept", Str("application/json"))>>),
    Obj(<<P("X-Trace", Str("1")), P("Authorization", Str("Basic abc"))>>) }

\* the authentication fields of the family, as properties of the argument bag
BuildAuths ==
  { <<>>,
    <<P("apiKey", Str("k")), P("bearerToken", Str("t")),
      P("username", Str("u")), P("password", Str("p"))>>,
    <<P("authType", Str("none")), P("bearerToken", Str("t"))>>,
    <<P("authType", Str("api-key")), P("apiKey", Str("k"))>>,
    <<P("authType", Str("api-key")), P("apiKey", Str("k")),
      P("apiKeyHeader", Str("X-Custom-Key"))>>,
    <<P("authType", Str("api-key")), P("bearerToken", Str("t"))>>,
    <<P("authType", Str("bearer")), P("bearerToken", Str("t"))>>,
    <<P("authType", Str("bearer")), P("apiKey", Str("k"))>>,
    <<P("authType", Str("bearer")), P("bearerToken", Str(""))>>,
    <<P("authType", Str("basic")), P("username", Str("u")), P("password", Str("p"))>>,
    <<P("authType", Str("basic")), P("username", Str("u"))>>,
    <<P("authType", Str("basic")), P("password", Str("p"))>> }

\* an argument bag: the given properties, those that are undefined left out
Bag(props) == Obj(SelectSeq(props, LAMBDA p : p.v.t # "undefined"))

\* the argument bags of rest_api_request of the family: every body with
\* every contentType and every caller header set, and every authentication
\* with every caller header set
BuildRestArgs ==
  { Bag(<<Url, P("method", Str("POST")), P("body", body),
          P("contentType", contentType), P("headers", headers),
          P("saveResponseTo", saveResponseTo)>>) :
      body \in BuildBodies, contentType \in BuildContentTypes,
      headers \in BuildHeaders, saveResponseTo \in {Undef, Str("/tmp/out.bin")} }
  \cup
  { Bag(<<Url, P("body", body), P("headers", headers)>> \o auth) :
      body \in {Undef, Obj(<<P("title", Str("x"))>>), OneFile("/data/a.txt")},
      headers \in BuildHeaders, auth \in BuildAuths }

\* the argument bags of rest_api_graphql of the family
BuildGraphqlArgs ==
  { Bag(<<GqlUrl, P("query", Str("{ a }")), P("httpMethod", httpMethod),
          P("variables", variables), P("headers", headers)>> \o auth) :
      httpMethod \in {Undef, Str("GET")},
      variables \in {Undef, Obj(<<P("id", Str("123"))>>)},
      headers \in BuildHeaders, auth \in BuildAuths }
  \cup
  { Bag(<<GqlUrl, P("query", Str("query Q($id: ID!) { user(id: $id) { name } }")),
          P("httpMethod", httpMethod), P("variables", variables),
          P("operationName", operationName), P("queryParams", queryParams)>>) :
      httpMethod \in {Undef, Str("GET"), Str("POST")},
      variables \in {Undef, EmptyObj, Obj(<<P("id", Str("123")), P("n", Num(2))>>)},
      operationName \in {Undef, Str(""), Str("Q")},
      queryParams \in {Undef, Obj(<<P("page", Num(1)), P("draft", Bool(FALSE))>>)} }

\* the request specifications of the family: the parsed argument bags
BuildCalls ==
  { [IdleCall EXCEPT !.mode = "build", !.name = "rest_api_request",
                     !.args = a, !.params = RestApiRequestSchema(a)] :
      a \in BuildRestArgs }
  \cup
  { [IdleCall EXCEPT !.mode = "build", !.name = "rest_api_graphql",
                     !.args = a, !.params = GraphQLRequestSchema(a)] :
      a \in BuildGraphqlArgs }

\* buildRequestConfig is applied to the request specification
BuildRest(c) ==
  /\ call[c].mode = "build"
  /\ call[c].name = "rest_api_request"
  /\ Len(call[c].builds) < MaxBuilds
  /\ \E boundary \in Boundaries :
       call' = [call EXCEPT ![c].builds =
                  Append(@, buildRequestConfig(call[c].params, disk, boundary))]
  /\ UNCHANGED <<ids, now, disk>>

\* the config of rest_api_graphql is built from the request specification
BuildGraphql(c) ==
  /\ call[c].mode = "build"
  /\ call[c].name = "rest_api_graphql"
  /\ Len(call[c].builds) < MaxBuilds
  /\ call' = [call EXCEPT ![c].builds =
                Append(@, Built(GraphQLConfig(call[c].params), <<>>))]
  /\ UNCHANGED <<ids, now, disk>>

InitBuild ==
  /\ ids = CallIds
  /\ call \in {[c \in CallIds |-> b] : b \in BuildCalls}
  /\ now = 0
  /\ disk = InitialDisk

NextBuild ==
  \/ \E c \in ids : BuildRest(c)
  \/ \E c \in ids : BuildGraphql(c)
SpecBuild == InitBuild /\ [][NextBuild]_vars

-----------------------------------------------------------------------------
(* Notions the properties share *)

Last(seq) == seq[Len(seq)]
ClientErrorKinds == {"http400", "http404", "http499"}
HttpErrorKinds == ClientErrorKinds \cup {"http304", "http500"}
AllTransient(replies) == \A i \in 1..Len(replies) : replies[i] \in TransientKinds
\* the first k replies are transient failures and reply k + 1 is a success
ThenSuccess(replies) ==
  /\ replies # <<>>
  /\ Last(replies) = "ok"
  /\ \A i \in 1..(Len(replies) - 1) : replies[i] \in TransientKinds
RECURSIVE Pow2(_)
Pow2(n) == IF n = 0 THEN 1 ELSE 2 * Pow2(n - 1)

\* a tool result that carries a Failure envelope: error: true and a message
IsEnvelope(result) == result.text.t = "object"
IsFailureEnvelope(result) ==
  /\ IsEnvelope(result)
  /\ Get(result.text, "error") = Bool(TRUE)
  /\ Get(result.text, "message").t = "string"
  /\ Get(result.text, "message").s # ""

-----------------------------------------------------------------------------
(* retryRequest: C1 - C4 *)

\* C1: a request function that fails transiently on every call is invoked
\* exactly maxRetries + 1 times, after which retryRequest throws the failure
\* of the last call; the number of invocations never exceeds maxRetries + 1.
C1_RetryBound ==
  \A c \in ids :
    LET r == call[c] IN
    /\ r.invocations <= r.maxRetries + 1
    /\ (r.pc = "settled" /\ AllTransient(r.replies)) =>
         /\ r.invocations = r.maxRetries + 1
         /\ Len(r.replies) = r.maxRetries + 1
         /\ r.settle.kind = "throw"
         /\ r.settle.error = AxiosResult(Last(r.replies), Undef, DefaultTimeout).error
C1_Witness ==
  \E c \in ids :
    /\ call[c].pc = "settled" /\ call[c].maxRetries = DefaultMaxRetries
    /\ call[c].invocations = 4 /\ AllTransient(call[c].replies)
    /\ call[c].settle.kind = "throw"

\* C2: a failure with an HTTP response of status 400..499 is the last thing
\* that happens to the invocation: retryRequest throws it at once, the request
\* function is not called again and no backoff delay follows it.
C2_ClientErrorTerminal ==
  \A c \in ids :
    LET r == call[c] IN
    \A i \in 1..Len(r.replies) :
      r.replies[i] \in ClientErrorKinds =>
        /\ i = Len(r.replies)
        /\ r.invocations = i
        /\ Len(r.waits) = i - 1
        /\ r.pc = "settled"
        /\ r.settle.kind = "throw"
        /\ r.settle.error = AxiosResult(r.replies[i], Undef, DefaultTimeout).error
        /\ (i = 1 => r.invocations = 1 /\ r.waits = <<>>)
C2_Witness ==
  \E c \in ids :
    /\ call[c].replies = <<"http404">> /\ call[c].invocations = 1
    /\ call[c].pc = "settled" /\ call[c].maxRetries > 0

\* C4: the wait after failed attempt n (from 0) is baseDelay * 2^n ms, there
\* is one wait per failed attempt that is followed by a retry, and attempt
\* n + 1 starts no earlier than that wait after the failure; with the
\* defaults the waits are 1000, 2000, 4000.
C4_BackoffDelays ==
  \A c \in ids :
    LET r == call[c] IN
    /\ \A n \in 1..Len(r.waits) :
         /\ r.waits[n] = r.baseDelay * Pow2(n - 1)
         /\ n + 1 <= Len(r.starts) => r.starts[n + 1] >= r.ends[n] + r.waits[n]
    /\ Len(r.starts) = r.invocations
    /\ r.pc = "backoff" => Len(r.waits) = r.invocations
    /\ r.pc \in {"inflight", "settled"} => Len(r.waits) = r.invocations - 1
    /\ (r.baseDelay = 1000 /\ Len(r.waits) = 3) => r.waits = <<1000, 2000, 4000>>
C4_Witness ==
  \E c \in ids :
    /\ call[c].waits = <<1000, 2000, 4000>>
    /\ Len(call[c].starts) = 4
    /\ call[c].starts[4] >= call[c].ends[3] + 4000

\* the response of the last reply of a tool call, as axios gives it
LastResponse(r) ==
  AxiosResult(Last(r.replies), r.config.responseType, r.config.timeout.n).response
\* the call saves its response to a file
Saves(r) ==
  r.name = "rest_api_request" /\ Truthy(Get(r.params, "saveResponseTo"))
\* the write of the saved response failed
WriteFailed(r) == r.writes # <<>> /\ Last(r.writes) \in Unwritable
\* the Success envelope of the last response
SuccessEnvelopeOf(r) ==
  IF Saves(r)
  THEN SavedEnvelope(LastResponse(r), resolve(Get(r.params, "saveResponseTo").s))
  ELSE formatResponse(LastResponse(r))

\* C3 as stated: k transient failures followed by a success give k + 1
\* invocations, retryRequest returns the success, nothing is invoked after
\* it, and the result of the call is the Success envelope of that response.
C3_SuccessAfterRetries ==
  \A c \in ids :
    LET r == call[c] IN
    (r.mode = "tool" /\ ThenSuccess(r.replies)) =>
      /\ r.invocations = Len(r.replies)
      /\ Len(r.replies) <= r.maxRetries + 1
      /\ r.settle.kind = "return"
      /\ r.settle.response = LastResponse(r)
      /\ r.pc = "returned"
      /\ ~r.result.isError
      /\ r.result.text = Json(SuccessEnvelopeOf(r))
      /\ Get(r.result.text, "status") = Num(200)

\* C3, amended: as C3, but when the response is to be saved and writing the
\* file fails, the result is the Failure envelope of the write error.
C3_SuccessAfterRetriesUnlessWriteFails ==
  \A c \in ids :
    LET r == call[c] IN
    (r.mode = "tool" /\ ThenSuccess(r.replies)) =>
      /\ r.invocations = Len(r.replies)
      /\ Len(r.replies) <= r.maxRetries + 1
      /\ r.settle.kind = "return"
      /\ r.settle.response = LastResponse(r)
      /\ r.pc = "returned"
      /\ IF WriteFailed(r)
         THEN r.result.isError /\ IsFailureEnvelope(r.result)
              /\ KeySet(r.result.text) = {"error", "message"}
         ELSE /\ ~r.result.isError
              /\ r.result.text = Json(SuccessEnvelopeOf(r))
              /\ Get(r.result.text, "status") = Num(200)
C3_Witness ==
  \E c \in ids :
    /\ call[c].replies = <<"http500", "http500", "http500", "ok">>
    /\ call[c].invocations = 4
    /\ call[c].pc = "returned"
    /\ Get(call[c].result.text, "status") = Num(200)
    /\ Has(call[c].result.text, "data")

-----------------------------------------------------------------------------
(* The envelopes: C5 - C9 *)

FailedStep(r) ==
  CASE r.name = "rest_api_request" /\ r.args \in InvalidRestArgs -> "validation"
    [] r.name = "rest_api_graphql" /\ r.args \in InvalidGraphqlArgs -> "validation"
    [] r.name \in Tools /\ r.config = Undef -> "build"
    [] r.name \in Tools /\ r.replies # <<>> /\ Last(r.replies) # "ok" -> "request"
    [] r.name \in Tools /\ WriteFailed(r) -> "write"
    [] OTHER -> "none"
C6_FailuresEnveloped ==
  \A c \in ids :
    LET r == call[c] IN
    /\ r.pc \in {"idle", "inflight", "backoff", "returned", "settled"}
    /\ r.mode = "tool" => r.pc # "settled"
    /\ (r.mode = "tool" /\ r.pc \notin {"inflight", "backoff"}
        /\ FailedStep(r) # "none") =>
         /\ r.pc = "returned"
         /\ r.result.isError
         /\ IsFailureEnvelope(r.result)
C6_Witness ==
  \E c \in ids :
    /\ call[c].pc = "returned" /\ FailedStep(call[c]) = "build"
    /\ call[c].reads = <<"/data/missing.txt">>
    /\ IsFailureEnvelope(call[c].result)

\* C7: a call of a tool that is not registered returns a Failure envelope,
\* an object with error: true and a message, and makes no request.
C7_UnknownToolEnvelope ==
  \A c \in ids :
    (call[c].pc = "returned" /\ call[c].name \notin Tools) =>
      /\ IsFailureEnvelope(call[c].result)
      /\ call[c].invocations = 0

\* C8: arguments that do not validate for the named tool give a Failure
\* envelope with no request made, no file read or written and no backoff.
C8_InvalidArgsStopEarly ==
  \A c \in ids :
    LET r == call[c] IN
    (r.mode = "tool" /\ FailedStep(r) = "validation") =>
      /\ r.pc = "returned"
      /\ r.result.isError /\ IsFailureEnvelope(r.result)
      /\ r.invocations = 0 /\ r.replies = <<>>
      /\ r.reads = <<>> /\ r.writes = <<>>
      /\ r.waits = <<>>
      /\ disk = InitialDisk
C8_Witness ==
  \E c \in ids :
    /\ call[c].pc = "returned"
    /\ call[c].name = "rest_api_request"
    /\ call[c].args \in InvalidRestArgs
    /\ Get(call[c].args, "url") = Str("not a url")
    /\ Truthy(Get(call[c].args, "saveResponseTo"))
    /\ call[c].invocations = 0

\* C9: a Failure envelope has status, statusText and headers (and data, the
\* body of the response) exactly when the failure is a received HTTP
\* response; otherwise its keys are error and message alone.
FromResponse(r) == r.replies # <<>> /\ Last(r.replies) \in HttpErrorKinds
C9_ResponseFieldsIffResponse ==
  \A c \in ids :
    LET r == call[c]
        env == r.result.text
    IN  (r.pc = "returned" /\ r.result.isError /\ r.name \in Tools) =>
          /\ IsEnvelope(r.result)
          /\ FromResponse(r) <=> {"status", "statusText", "headers"} \subseteq KeySet(env)
          /\ FromResponse(r) <=> {"status", "statusText", "headers"} \cap KeySet(env) # {}
          /\ FromResponse(r) =>
               /\ Get(env, "status") = Num(ReplyStatus(Last(r.replies)))
               /\ Has(env, "data")
          /\ ~FromResponse(r) => KeySet(env) = {"error", "message"}
C9_Witness ==
  \E c \in ids :
    /\ call[c].pc = "returned" /\ call[c].result.isError
    /\ Len(call[c].replies) = 4 /\ Last(call[c].replies) = "timeout"
    /\ KeySet(call[c].result.text) = {"error", "message"}

-----------------------------------------------------------------------------
(* The headers of the config: C10 *)

\* C10: every header the caller gave is in the config with the caller's
\* value, except Content-Type when the body is multipart.
C10_CallerHeadersWin ==
  \A c \in ids :
    LET r == call[c]
        given == Get(r.params, "headers")
    IN  (r.mode = "tool" /\ r.config # Undef /\ Truthy(given)) =>
          \A i \in 1..Len(given.props) :
            \/ r.config.data.t = "form" /\ given.props[i].k = "Content-Type"
            \/ Get(r.config.headers, given.props[i].k) = given.props[i].v

-----------------------------------------------------------------------------
(* Notions of the builder properties *)

UpperCase == "ABCDEFGHIJKLMNOPQRSTUVWXYZ"
LowerCase == "abcdefghijklmnopqrstuvwxyz"
\* a header name in lower case: header names are compared without case
RECURSIVE LowerName(_)
LowerName(k) ==
  IF k = "" THEN ""
  ELSE LET ch == SubSeq(k, 1, 1)
           lower == IF \E i \in 1..26 : SubSeq(UpperCase, i, i) = ch
                    THEN LET i == CHOOSE j \in 1..26 : SubSeq(UpperCase, j, j) = ch
                         IN  SubSeq(LowerCase, i, i)
                    ELSE ch
       IN  lower \o LowerName(SubSeq(k, 2, Len(k)))
\* the entries of a header object that carry the header of the given
\* lower-case name
HeaderKeys(headers, name) == {k \in KeySet(headers) : LowerName(k) = name}

\* the builds made so far, each with the request specification it was made of
Builds ==
  UNION {{[name |-> call[c].name, args |-> call[c].args, params |-> call[c].params,
           out |-> call[c].builds[i]] : i \in 1..Len(call[c].builds)} :
         c \in {d \in ids : call[d].mode = "build"}}
\* the builds of rest_api_request that gave a config
RestConfigs == {b \in Builds : b.name = "rest_api_request" /\ ~b.out.threw}
\* the body of the config is a multipart form
IsMultipart(config) == config.data.t = "form"

-----------------------------------------------------------------------------
(* Multipart Content-Type: C11 *)

\* C11: when the body is encoded as multipart, the config has exactly one
\* Content-Type entry, and it is the one of the multipart encoder, with its
\* boundary, whatever Content-Type header and contentType the caller gave.
C11_MultipartContentType ==
  \A b \in RestConfigs :
    IsMultipart(b.out.config) =>
      LET headers == b.out.config.headers
          names == HeaderKeys(headers, "content-type")
      IN  /\ Cardinality(names) = 1
          /\ \A k \in names :
               Get(headers, k) = Get(getHeaders(b.out.config.data), "content-type")

-----------------------------------------------------------------------------
(* Inference of the encoding: C12 - C15 *)

\* no contentType argument was given
Inferred(params) == ~Truthy(Get(params, "contentType"))
\* the body has a files property that holds a sequence
HasFilesSequence(body) == body.t = "object" /\ Get(body, "files").t = "array"
\* the Content-Type the multipart encoder gives a form
EncoderContentType(form) == Str("multipart/form-data; boundary=" \o form.boundary)

\* C12: a body whose files property holds a sequence, empty or not, and
\* whatever its other keys, is inferred to be multipart: the builder takes
\* the multipart branch, so the config it gives carries a form and the
\* encoder's content type, never the json or form-urlencoded one.
C12_FilesInferMultipart ==
  \A b \in Builds :
    LET body == Get(b.params, "body") IN
    (b.name = "rest_api_request" /\ Inferred(b.params) /\ HasFilesSequence(body)) =>
      /\ detectContentType(body) = Str("multipart/form-data")
      /\ ~b.out.threw =>
           /\ IsMultipart(b.out.config)
           /\ Get(b.out.config.headers, "content-type")
                = EncoderContentType(b.out.config.data)
           /\ Get(b.out.config.headers, "Content-Type")
                \notin {Str("application/json"), Str("application/x-www-form-urlencoded")}
C12_Witness ==
  \E b \in RestConfigs :
    /\ Inferred(b.params)
    /\ HasFilesSequence(Get(b.params, "body"))
    /\ Has(Get(b.params, "body"), "grant_type")
    /\ IsMultipart(b.out.config)
    /\ Len(b.out.config.data.parts) = 2

\* the body is a flat mapping: an object, no array, whose values are all
\* strings, numbers, booleans or null
IsFlatScalar(body) ==
  /\ body.t = "object"
  /\ \A i \in 1..Len(body.props) :
       body.props[i].v.t \in {"string", "number", "boolean", "null"}
\* one of the keys of the body contains an underscore
HasUnderscoreKey(body) ==
  \E k \in KeySet(body) : \E i \in 1..Len(k) : SubSeq(k, i, i) = "_"

\* C13: a flat mapping of scalars with an underscored key, and no
\* contentType, is built as form-urlencoded: the payload is the string of
\* its URL-encoded key=value pairs and Content-Type is
\* application/x-www-form-urlencoded.
C13_FlatUnderscoreIsFormUrlEncoded ==
  \A b \in Builds :
    LET body == Get(b.params, "body") IN
    (/\ b.name = "rest_api_request" /\ Inferred(b.params)
     /\ IsFlatScalar(body) /\ HasUnderscoreKey(body)) =>
      /\ ~b.out.threw
      /\ b.out.config.data = Str(UrlSearchParamsString(body.props, 1))
      /\ Get(b.out.config.headers, "Content-Type")
           = Str("application/x-www-form-urlencoded")
C13_Witness ==
  \E b \in RestConfigs :
    /\ Inferred(b.params)
    /\ IsFlatScalar(Get(b.params, "body"))
    /\ KeySet(Get(b.params, "body")) = {"user_name", "n", "ok", "z"}
    /\ Get(b.params, "headers") = Obj(<<P("Content-Type", Str("text/plain"))>>)
    /\ b.out.config.data = Str("user_name=a+b&n=1&ok=true&z=null")
    /\ Get(b.out.config.headers, "Content-Type")
         = Str("application/x-www-form-urlencoded")

\* the body is a mapping that has the key
HasKey(body, k) == body.t = "object" /\ Has(body, k)
\* the body is an object: a mapping or an array
IsObjectBody(body) == body.t \in {"object", "array"}
\* the config is the json one: Content-Type application/json and the body
\* passed through as it is
IsJsonBuild(b) ==
  /\ ~b.out.threw
  /\ Get(b.out.config.headers, "Content-Type") = Str("application/json")
  /\ b.out.config.data = Get(b.params, "body")

\* C14 as stated: an object body without a files sequence and without the
\* key grant_type, and no contentType, is built as json.
C14_NoFilesNoGrantTypeIsJson ==
  \A b \in Builds :
    LET body == Get(b.params, "body") IN
    (/\ b.name = "rest_api_request" /\ Inferred(b.params)
     /\ IsObjectBody(body) /\ ~HasFilesSequence(body)
     /\ ~HasKey(body, "grant_type")) =>
      IsJsonBuild(b)

\* C14, amended: an object body without a files sequence and without the
\* key grant_type that is not a flat mapping of scalars with an underscored
\* key, and no contentType, is built as json: Content-Type is
\* application/json and the body is passed through unchanged.
C14_OtherObjectsAreJson ==
  \A b \in Builds :
    LET body == Get(b.params, "body") IN
    (/\ b.name = "rest_api_request" /\ Inferred(b.params)
     /\ IsObjectBody(body) /\ ~HasFilesSequence(body)
     /\ ~HasKey(body, "grant_type")
     /\ ~(IsFlatScalar(body) /\ HasUnderscoreKey(body))) =>
      IsJsonBuild(b)
C14_Witness ==
  \E b \in RestConfigs :
    /\ Inferred(b.params)
    /\ Get(b.params, "body") = Obj(<<P("a", Obj(<<P("b_c", Num(1))>>))>>)
    /\ IsJsonBuild(b)

\* the media type of a Content-Type value: the part before its parameters
RECURSIVE MediaType(_)
MediaType(v) ==
  IF v = "" \/ SubSeq(v, 1, 1) = ";" THEN ""
  ELSE SubSeq(v, 1, 1) \o MediaType(SubSeq(v, 2, Len(v)))
\* the encoding the config declares for its payload: the media type of the
\* Content-Type the builder has set, which for a form is the encoder's
ResolvedEncoding(config) ==
  LET set == IF IsMultipart(config) THEN Get(config.headers, "content-type")
             ELSE Get(config.headers, "Content-Type")
  IN  IF set.t = "string" THEN Str(MediaType(set.s)) ELSE set

-----------------------------------------------------------------------------
(* Authentication: C16, C17 *)

\* the builds that gave a config, of either tool
Configs == {b \in Builds : ~b.out.threw}
\* the caller's headers, an empty object when none were given
CallerHeaders(params) ==
  IF Truthy(Get(params, "headers")) THEN Get(params, "headers") ELSE EmptyObj
\* the entries of the config's headers that are neither the caller's nor the
\* Accept and Content-Type entries of the builder
Added(headers, params) ==
  LET given == CallerHeaders(params)
  IN  {<<k, Get(headers, k)>> :
         k \in {h \in KeySet(headers) :
                  /\ LowerName(h) \notin {"accept", "content-type"}
                  /\ Get(given, h) # Get(headers, h)}}
AddedHeaders(b) == Added(b.out.config.headers, b.params)
\* the credential of the given name was supplied, and is not empty
Supplied(params, name) ==
  Get(params, name).t = "string" /\ Get(params, name).s # ""
\* the credentials the strategy of the request needs are all there
HasCredentials(params) ==
  CASE Get(params, "authType") = Str("api-key") -> Supplied(params, "apiKey")
    [] Get(params, "authType") = Str("bearer") -> Supplied(params, "bearerToken")
    [] Get(params, "authType") = Str("basic") ->
         Supplied(params, "username") /\ Supplied(params, "password")
    [] OTHER -> TRUE

C17_MissingCredentialsNotRejected ==
  \A c \in ids :
    LET r == call[c] IN
    (/\ r.mode = "tool" /\ r.name \in Tools /\ r.params # Undef
     /\ Get(r.params, "authType") # Str("none")
     /\ ~HasCredentials(r.params)) =>
      /\ r.config # Undef
      /\ r.config.auth = Undef
      /\ Added(r.config.headers, r.params) = {}
      /\ r.invocations >= 1
      /\ r.pc = "returned" /\ r.result.isError => Last(r.replies) # "ok"
C17_Witness ==
  \E c \in ids :
    /\ call[c].name = "rest_api_request"
    /\ Get(call[c].params, "authType") = Str("basic")
    /\ Supplied(call[c].params, "username")
    /\ ~Supplied(call[c].params, "password")
    /\ call[c].pc = "returned" /\ ~call[c].result.isError
    /\ call[c].replies = <<"ok">>
    /\ call[c].config.auth = Undef
    /\ KeySet(call[c].config.headers) = {"Accept"}

-----------------------------------------------------------------------------
(* The Accept header: C18 *)

-----------------------------------------------------------------------------
(* Building twice: C19 *)

\* C19: two builds of the same request specification, with the same files
\* on disk, give the same config: method, url, headers, payload, timeout
\* and response type.
C19_BuildTwiceSame ==
  \A c \in ids :
    (call[c].mode = "build" /\ call[c].name = "rest_api_request"
     /\ Len(call[c].builds) >= 2) =>
      \A i, j \in 1..Len(call[c].builds) :
        (~call[c].builds[i].threw /\ ~call[c].builds[j].threw) =>
          call[c].builds[i].config = call[c].builds[j].config

-----------------------------------------------------------------------------
(* Saved responses: C20 *)

\* the path the call saves its response to
SavePathOf(r) == resolve(Get(r.params, "saveResponseTo").s)
\* the call has saved the response: the file at the path holds the bytes
\* received and the result is the envelope of the saved response
SavedExactly(r, bytes) ==
  LET env == r.result.text IN
  /\ r.writes = <<SavePathOf(r)>>
  /\ SavePathOf(r) \in DOMAIN disk
  /\ disk[SavePathOf(r)] = bytes
  /\ ~r.result.isError
  /\ IsEnvelope(r.result)
  /\ KeySet(env) = {"status", "statusText", "headers", "savedTo", "size"}
  /\ Get(env, "status") = Num(200)
  /\ Get(env, "statusText") = Str("OK")
  /\ Get(env, "headers") = Obj(<<P("content-type", Str("application/json"))>>)
  /\ Get(env, "savedTo") = Str(SavePathOf(r))
  /\ Get(env, "size") = Num(Len(bytes))
\* a call of rest_api_request with saveResponseTo whose request has succeeded
SavedCalls ==
  {c \in ids : /\ call[c].mode = "tool" /\ call[c].pc = "returned"
               /\ call[c].params # Undef /\ Saves(call[c])
               /\ call[c].replies # <<>> /\ Last(call[c].replies) = "ok"}

-----------------------------------------------------------------------------
(* GraphQL: C21 *)

\* the argument of the given name was given: present and not empty
Given(params, name) ==
  LET v == Get(params, name) IN
  v.t # "undefined" /\ (v.t = "string" => v.s # "")
\* the GraphQL fields the request carries
GraphQLFields(params) ==
  {"query"} \cup {f \in {"variables", "operationName"} : Given(params, f)}
\* the caller's query parameters, an empty object when none were given
CallerQueryParams(params) ==
  IF Get(params, "queryParams").t = "undefined" THEN EmptyObj
  ELSE Get(params, "queryParams")
\* the JSON texts of the variables of the family
VariablesText(variables) ==
  CASE variables = EmptyObj -> "{}"
    [] variables = Obj(<<P("id", Str("123"))>>) -> "{\"id\":\"123\"}"
    [] OTHER -> "{\"id\":\"123\",\"n\":2}"

\* C21: with httpMethod GET the config is a GET without a body whose query
\* parameters are the caller's together with query, the JSON text of the
\* variables when given and operationName when given; with POST, the
\* default, it is a POST whose body is {query, variables?, operationName?}
\* and whose query parameters are the caller's.
C21_GraphQLMethods ==
  \A b \in Configs :
    b.name = "rest_api_graphql" =>
      LET config == b.out.config
          fields == GraphQLFields(b.params)
          given == CallerQueryParams(b.params)
      IN  IF Get(b.args, "httpMethod") = Str("GET")
          THEN /\ config.method = Str("GET")
               /\ config.data = Undef
               /\ KeySet(config.params) = KeySet(given) \cup fields
               /\ \A k \in KeySet(given) : Get(config.params, k) = Get(given, k)
               /\ Get(config.params, "query") = Get(b.params, "query")
               /\ "variables" \in fields =>
                    Get(config.params, "variables")
                      = Str(VariablesText(Get(b.params, "variables")))
               /\ "operationName" \in fields =>
                    Get(config.params, "operationName") = Get(b.params, "operationName")
          ELSE /\ config.method = Str("POST")
               /\ config.data.t = "object"
               /\ KeySet(config.data) = fields
               /\ \A f \in fields : Get(config.data, f) = Get(b.params, f)
               /\ config.params = Get(b.params, "queryParams")
               /\ HeaderKeys(CallerHeaders(b.params), "content-type") = {} =>
                    Get(config.headers, "Content-Type") = Str("application/json")
C21_Witness ==
  \E b \in Configs :
    /\ b.name = "rest_api_graphql"
    /\ Get(b.args, "httpMethod") = Str("GET")
    /\ b.out.config.method = Str("GET")
    /\ b.out.config.data = Undef
    /\ b.out.config.params =
         Obj(<<P("page", Num(1)), P("draft", Bool(FALSE)),
               P("query", Str("query Q($id: ID!) { user(id: $id) { name } }")),
               P("variables", Str("{\"id\":\"123\",\"n\":2}")),
               P("operationName", Str("Q"))>>)

-----------------------------------------------------------------------------
(* Local I/O failures: C22 *)

\* the read of an attachment failed: the last file the call tried to read
\* does not exist
ReadFailed(r) == r.reads # <<>> /\ Last(r.reads) \notin DOMAIN disk

\* C22: a call whose attachment cannot be read makes no request at all, and
\* a call whose response cannot be written makes no request after the one
\* that succeeded; either way it has returned a Failure envelope, and it has
\* waited only between the attempts before the success.
C22_LocalIOFailureTerminal ==
  \A c \in ids :
    LET r == call[c] IN
    /\ (r.mode = "tool" /\ ReadFailed(r)) =>
         /\ r.invocations = 0
         /\ r.replies = <<>>
         /\ r.waits = <<>>
         /\ r.pc = "returned"
         /\ r.result.isError /\ IsFailureEnvelope(r.result)
         /\ KeySet(r.result.text) = {"error", "message"}
    /\ (r.mode = "tool" /\ WriteFailed(r)) =>
         /\ r.pc = "returned"
         /\ Last(r.replies) = "ok"
         /\ r.invocations = Len(r.replies)
         /\ \A i \in 1..(Len(r.replies) - 1) : r.replies[i] # "ok"
         /\ Len(r.waits) = Len(r.replies) - 1
         /\ Len(r.writes) = 1
         /\ r.result.isError /\ IsFailureEnvelope(r.result)
         /\ KeySet(r.result.text) = {"error", "message"}
C22_Witness ==
  \E c \in ids :
    /\ WriteFailed(call[c])
    /\ call[c].replies = <<"http500", "ok">>
    /\ call[c].invocations = 2
    /\ call[c].pc = "returned"
    /\ call[c].result.isError
C22_WitnessRead ==
  \E c \in ids :
    /\ call[c].mode = "tool" /\ ReadFailed(call[c])
    /\ call[c].invocations = 0 /\ call[c].pc = "returned"

-----------------------------------------------------------------------------
(* Retries and the HTTP method: C23 *)

\* the attempts a sequence of replies calls for, whatever the request: a
\* further one after every reply but a success, a 4xx response, or the
\* reply of attempt maxRetries + 1
CallsForMore(replies) ==
  /\ Last(replies) \in TransientKinds
  /\ Len(replies) < DefaultMaxRetries + 1
\* the calls of the tools whose request has been started
StartedCalls ==
  {c \in ids : call[c].mode = "tool" /\ call[c].invocations > 0}

\* C23: the attempts of a call follow from the replies alone, the same for
\* every method: each reply that calls for another attempt is followed by
\* a wait and that attempt, GET or not, and no other reply is.
C23_RetryIgnoresMethod ==
  \A c \in StartedCalls :
    LET r == call[c] IN
    /\ r.config.method \in {Str(m) : m \in Methods}
    /\ \A i \in 1..(Len(r.replies) - 1) : CallsForMore(SubSeq(r.replies, 1, i))
    /\ r.replies # <<>> =>
         (CallsForMore(r.replies) <=> r.pc \in {"backoff", "inflight"})
    /\ r.replies # <<>> /\ ~CallsForMore(r.replies) => r.pc = "returned"
    /\ r.invocations = Len(r.replies) + (IF r.pc = "inflight" THEN 1 ELSE 0)
C23_Witness ==
  \E c \in StartedCalls :
    /\ call[c].config.method = Str("POST")
    /\ call[c].replies = <<"timeout", "http500", "other", "http500">>
    /\ call[c].invocations = DefaultMaxRetries + 1
    /\ call[c].pc = "returned"

-----------------------------------------------------------------------------
(* C24: calls in flight at once do not affect one another *)

\* a call's record without its clock readings
Timeless(r) == [r EXCEPT !.starts = <<>>, !.ends = <<>>, !.wakeAt = 0]

\* the record of a call that ran alone and got the replies from the i-th on
RECURSIVE Replayed(_, _, _)
Replayed(r, replies, i) ==
  IF i > Len(replies) THEN r
  ELSE LET r0 == [r EXCEPT !.replies = Append(@, replies[i]), !.ends = Append(@, 0)]
           r1 == retrySettled(r0, AxiosResult(replies[i], ResponseTypeOf(r0),
                                              TimeoutOf(r0)), 0)
           r2 == IF r1.pc = "settled" THEN Continue(r1) ELSE r1
       IN  IF i < Len(replies) THEN Replayed(retryResumed(r2, 0), replies, i + 1)
           ELSE r2

\* the record of a call with these arguments that ran alone, on the initial
\* disk, and got these replies
Alone(name, args, boundary, replies) ==
  Replayed(Dispatch([IdleCall EXCEPT !.mode = "tool", !.name = name, !.args = args],
                    InitialDisk, boundary, 0),
           replies, 1)

\* C24: whatever the interleaving of two calls' attempts, backoff waits and
\* completions, each call's attempt count, transport descriptor, waits and
\* returned envelope are those of a call with the same arguments that ran
\* alone and received the same transport outcomes
C24_CallsAreIsolated ==
  \A c \in ids :
    call[c].pc # "idle" =>
      \E boundary \in Boundaries :
        LET a == Alone(call[c].name, call[c].args, boundary, call[c].replies)
        IN  \/ Timeless(call[c]) = Timeless(a)
            \/ /\ a.pc = "backoff"
               /\ Timeless(call[c]) = Timeless(retryResumed(a, 0))

\* two different calls under way at once, one retrying after a failure while
\* the other has already failed twice, and later both over with different
\* envelopes
C24_Witness ==
  /\ call[1].pc = "backoff" /\ call[1].replies = <<"http500">>
  /\ call[2].pc = "inflight" /\ call[2].replies = <<"http500", "http500">>
  /\ call[1].name = "rest_api_graphql" /\ call[2].name = "rest_api_request"
  /\ call[1].config # call[2].config

-----------------------------------------------------------------------------
(* C25: buildRequestConfig on every validated specification *)

\* C25: for every request specification accepted by RestApiRequestSchema,
\* whatever its body and its explicit contentType, buildRequestConfig
\* returns a config and does not throw
C25_BuildIsTotal ==
  \A b \in Builds : b.name = "rest_api_request" => ~b.out.threw

-----------------------------------------------------------------------------
(* C26: the descriptor of every attempt *)

\* C26: every attempt of a call, the first and each retry, is executed with
\* the same method, URL, headers, query parameters, timeout and payload as
\* the first attempt
C26_SameDescriptorEveryAttempt ==
  \A c \in StartedCalls :
    \A i \in 1..Len(call[c].sent) : call[c].sent[i] = call[c].sent[1]

-----------------------------------------------------------------------------
(* C27: the validated request specification is left as it was *)

\* the fields of the specification that validation hands on as given
CallerFields ==
  {"headers", "queryParams", "body", "variables",
   "apiKey", "bearerToken", "username", "password"}

\* C27: from validation to the return of the call, through the build, the
\* injection of the credentials, the attempts and the envelope, the headers,
\* queryParams, body and credentials of the validated parameters are the
\* ones the caller gave
C27_SpecificationUnchanged ==
  \A c \in ids :
    LET r == call[c] IN
    r.mode = "tool" /\ r.params # Undef =>
      \A f \in CallerFields : Get(r.params, f) = Get(r.args, f)

\* a call that has returned after a retry: its config carries an Accept
\* header and the bearer credential, its validated headers still have no
\* Accept and the Authorization the caller gave
C27_Witness ==
  \E c \in ids :
    LET r == call[c] IN
    /\ r.pc = "returned" /\ Len(r.replies) >= 2
    /\ Truthy(Get(r.params, "body"))
    /\ IsPlainObj(Get(r.params, "headers"))
    /\ "Accept" \notin KeySet(Get(r.params, "headers"))
    /\ Get(Get(r.params, "headers"), "Authorization") = Str("Basic abc")
    /\ Get(r.config.headers, "Authorization") = Str("Bearer t")
    /\ Get(r.config.headers, "Accept") = Str("*/*")

-----------------------------------------------------------------------------
(* C28: what retryRequest retries *)

\* the reply is a failure, and not a response with a status in 400..499
RetryableKind(kind) == kind # "ok" /\ ReplyStatus(kind) \notin 400..499

\* C28: every failure that is not a response with a status in 400..499 (no
\* Axios error at all, an Axios error without a response, a response with a
\* status below 400 or of 500 and more) is followed by a backoff and one more
\* attempt as long as fewer than maxRetries retries were made; after
\* maxRetries retries it is thrown, and it is the failure of the last
\* attempt, not an earlier one
C28_RetryableFailures ==
  \A c \in ids :
    LET r == call[c] IN
    /\ \A i \in 1..Len(r.replies) :
         RetryableKind(r.replies[i]) =>
           IF i <= r.maxRetries
           THEN /\ Len(r.waits) >= i
                /\ r.invocations > i \/ (r.pc = "backoff" /\ i = Len(r.replies))
           ELSE /\ i = r.maxRetries + 1 /\ i = Len(r.replies)
                /\ r.pc = "settled" /\ r.settle.kind = "throw"
    /\ (r.pc = "settled" /\ r.settle.kind = "throw") =>
         r.settle.error = AxiosResult(Last(r.replies), Undef, DefaultTimeout).error

\* one failure of each retryable sort, the last one thrown after three retries
C28_Witness ==
  \E c \in ids :
    LET r == call[c] IN
    /\ r.maxRetries = 3
    /\ r.replies = <<"other", "timeout", "http304", "http500">>
    /\ r.invocations = 4
    /\ r.pc = "settled" /\ r.settle.kind = "throw"
    /\ r.settle.error.response.status = 500
    /\ r.lastError = r.settle.error

-----------------------------------------------------------------------------
(* C29: when the target file is written *)

\* C29: a call writes its target file at most once, and only after an
\* attempt has succeeded: while the call is between its attempts nothing has
\* been written, and a call that ends in failure without having reached the
\* write (validation, build, a 4xx, retries exhausted) leaves every file as
\* it was, the target neither created nor modified
C29_WriteOnceAfterSuccess ==
  \A c \in ids :
    LET r == call[c] IN
    /\ Len(r.writes) <= 1
    /\ r.writes # <<>> =>
         /\ r.pc = "returned" /\ Saves(r)
         /\ Last(r.replies) = "ok"
         /\ \A i \in 1..(Len(r.replies) - 1) : r.replies[i] # "ok"
    /\ r.pc \in {"idle", "inflight", "backoff"} => disk = InitialDisk
    /\ (r.pc = "returned" /\ r.result.isError /\ r.writes = <<>>) => disk = InitialDisk
    /\ disk # InitialDisk =>
         /\ r.writes = <<SavePathOf(r)>> /\ ~r.result.isError
         /\ \A q \in DOMAIN InitialDisk : q # SavePathOf(r) => disk[q] = InitialDisk[q]

\* a saving call whose retries are exhausted with the existing target file
\* untouched, after three waits between its attempts
C29_Witness ==
  \E c \in ids :
    LET r == call[c] IN
    /\ r.pc = "returned" /\ r.result.isError
    /\ Saves(r) /\ SavePathOf(r) = "/tmp/out.bin"
    /\ r.replies = <<"http500", "timeout", "http500", "http500">>
    /\ r.writes = <<>>
    /\ disk["/tmp/out.bin"] = "old"

-----------------------------------------------------------------------------
(* C30: the isError flag and the envelope *)

\* C30: a tool result has isError set exactly when its text is a JSON
\* envelope with error: true; a Success envelope never has it set, and a
\* result with it set always carries a JSON envelope with error: true
C30_IsErrorIffFailureEnvelope ==
  \A c \in ids :
    LET r == call[c] IN
    (r.mode = "tool" /\ r.pc = "returned") =>
      (r.result.isError <=>
         (IsEnvelope(r.result) /\ Get(r.result.text, "error") = Bool(TRUE)))

====
